---- MODULE Spec2Model ----
(***************************************************************************)
(* A model of the client-side visualisation pipeline of the personal site: *)
(* the running page (src/running.js), the venue tracker page               *)
(* (src/unnamed/part_000) and the helpers they share with src/script.js.   *)
(*                                                                         *)
(* Three specifications share the module's variables:                      *)
(*   SpecPace     formatPace applied to every input of a bounded range     *)
(*   SpecCounter  one visibility trigger and the counter it starts, with   *)
(*                the shared reveal observer (FairSpecCounter adds the     *)
(*                display's frame delivery)                                *)
(*   Spec         a page session: the fetches, the deferred render timers, *)
(*                the theme toggle and the map instances                   *)
(*                                                                         *)
(* Numbers the scripts hold as floating point are held here as fractions   *)
(* n/d of integers, in thousandths where a dataset value is meant.         *)
(***************************************************************************)
EXTENDS Integers, Sequences, FiniteSets, TLC

VARIABLES
    \* ---- formatPace on its own
    paceIn,         \* decimal minutes handed to formatPace, in thousandths
    paceOut,        \* the string it returned, or Unset
    \* ---- a visibility trigger and its counter
    cfg,            \* the stat card's configuration (renderStatCards' targets)
    elPresent,      \* whether the counter's element is on the page
    observing,      \* whether the trigger's observer still observes its target
    notified,       \* notifications delivered to the trigger's observer so far
    sawIntersecting,\* whether one of them was intersecting
    cbRuns,         \* times the trigger's callback body ran
    phase,          \* "idle" | "animating" | "settled"
    frames,         \* outstanding requestAnimationFrame callbacks: their start times
    now,            \* the clock, in ticks of Duration / TicksPerDuration
    display,        \* the counter element's textContent
    lastElapsed,    \* elapsed ticks seen by the last tick that ran, or -1
    revealObserved, \* elements the shared revealObserver observes
    revealSaw,      \* elements for which it delivered an intersecting entry
    visibleAdds,    \* per element: times classList.add('visible') ran
    \* ---- one call of a chart renderer
    chartIn,        \* the renderer's argument
    chartOut,       \* what it rendered: [fn, out], fn "(none)" before the call
    \* ---- a page session
    page,           \* "running" (running.js) | "venue" (the venue tracker script)
    slice,          \* which inputs the session draws from: one dataset's records or the layout
    present,        \* ids of the elements the page's markup holds
    toggles,        \* theme-toggle clicks so far
    primary,        \* primary fetch: "pending" | "ok" | "http-error" | "network-error" | "bad-json"
    featured,       \* featured-routes fetch: "pending" | "ok" | "failed"
    topo,           \* topology fetch: "pending" | "ok" | "failed"
    caught,         \* functions whose exception reached a fetch chain's .catch
    unhandled,      \* handlers that ended in an uncaught exception or unhandled rejection
    js              \* the script's variables and the DOM content it wrote (see JsInit)

paceVars == <<paceIn, paceOut>>
ctrVars == <<cfg, elPresent, observing, notified, sawIntersecting, cbRuns, phase,
             frames, now, display, lastElapsed>>
revealVars == <<revealObserved, revealSaw, visibleAdds>>
pageVars == <<page, slice, present, toggles, primary, featured, topo, caught, unhandled, js>>
chartVars == <<chartIn, chartOut>>
vars == <<paceVars, chartVars, ctrVars, revealVars, pageVars>>

Unset == "(unset)"
Null == "(null)"

\* Dataset values are held in thousandths: 6.5 is 6500.
Scale == 10 * 100

SeqsUpTo(S, n) == UNION { [1..k -> S] : k \in 0..n }
Min(a, b) == IF a < b THEN a ELSE b
Max(a, b) == IF a > b THEN a ELSE b

-----------------------------------------------------------------------------
(* Number formatting                                                       *)

\* Math.floor and Math.round (round half up) of the fraction n/d, d > 0.
MathFloor(n, d) == n \div d
MathRound(n, d) == (2 * n + d) \div (2 * d)

\* String.prototype.padStart(2, '0')
padStart2(s) == IF Len(s) < 2 THEN "0" \o s ELSE s

\* formatPace(decimalMinutes), decimalMinutes = n/d
formatPace(n, d) ==
    LET mins == MathFloor(n, d)
        secs == MathRound((n - mins * d) * 60, d)
    IN  ToString(mins) \o ":" \o padStart2(ToString(secs))

-----------------------------------------------------------------------------
(* SpecPace                                                                *)

MaxPaceMilli == 11000

PaceInit ==
    /\ paceIn \in 0..MaxPaceMilli
    /\ paceOut = Unset

PaceIdle ==
    /\ paceIn = 0
    /\ paceOut = Unset

FormatPaceCall ==
    /\ paceOut = Unset
    /\ paceOut' = formatPace(paceIn, Scale)
    /\ UNCHANGED <<paceIn, chartVars, ctrVars, revealVars, pageVars>>

NextPace == FormatPaceCall

-----------------------------------------------------------------------------
(* Counter animation: renderStatCards / renderGoalTracker, animateCounter, *)
(* animateGoalCounter and their tick closures                              *)

\* The animation's fixed duration, in the time units of performance.now().
Duration == 1200

\* The clock advances in ticks of Duration / TicksPerDuration time units, so
\* a time of k ticks is k * Duration / TicksPerDuration.
TicksPerDuration == 3
\* Ticks that may pass before the trigger fires, ticks between two frames,
\* and observer notifications delivered in a session.
MaxWait == 1
MaxFrameGap == 2
MaxNotifs == 3

\* Dataset values the counters are given, in thousandths.
Targets == {0, 6500, 10999, 1234500}

\* targets of renderStatCards (running page), with the function animating them
RunningTargets ==
    { [id |-> "stat-distance", fn |-> "animateCounter", isPace |-> FALSE, separator |-> FALSE, decimals |-> 1, isPct |-> FALSE],
      [id |-> "stat-runs", fn |-> "animateCounter", isPace |-> FALSE, separator |-> FALSE, decimals |-> 0, isPct |-> FALSE],
      [id |-> "stat-pace", fn |-> "animateCounter", isPace |-> TRUE, separator |-> FALSE, decimals |-> Null, isPct |-> FALSE],
      [id |-> "stat-time", fn |-> "animateCounter", isPace |-> FALSE, separator |-> FALSE, decimals |-> 1, isPct |-> FALSE],
      [id |-> "stat-elevation", fn |-> "animateCounter", isPace |-> FALSE, separator |-> TRUE, decimals |-> 0, isPct |-> FALSE] }

\* targets of renderStatCards (venue page); its animateCounter has no pace branch
VenueTargets ==
    { [id |-> "stat-venues", fn |-> "animateCounterVenue", isPace |-> FALSE, separator |-> FALSE, decimals |-> 0, isPct |-> FALSE],
      [id |-> "stat-visits", fn |-> "animateCounterVenue", isPace |-> FALSE, separator |-> FALSE, decimals |-> 0, isPct |-> FALSE],
      [id |-> "stat-hours", fn |-> "animateCounterVenue", isPace |-> FALSE, separator |-> FALSE, decimals |-> 1, isPct |-> FALSE],
      [id |-> "stat-cities", fn |-> "animateCounterVenue", isPace |-> FALSE, separator |-> FALSE, decimals |-> 0, isPct |-> FALSE] }

\* the three animateGoalCounter calls of renderGoalTracker's observer
GoalTargets ==
    { [id |-> "goal-miles-run", fn |-> "animateGoalCounter", isPace |-> FALSE, separator |-> FALSE, decimals |-> 1, isPct |-> FALSE],
      [id |-> "goal-miles-left", fn |-> "animateGoalCounter", isPace |-> FALSE, separator |-> FALSE, decimals |-> 1, isPct |-> FALSE],
      [id |-> "goal-pct", fn |-> "animateGoalCounter", isPace |-> FALSE, separator |-> FALSE, decimals |-> 1, isPct |-> TRUE] }

\* the observer renderBarChart (and the other bar renderers) put on their
\* container: its callback adds the class 'animate' and starts no counter
BarTargets ==
    { [id |-> "bar-chart", fn |-> "addAnimateClass", isPace |-> FALSE, separator |-> FALSE, decimals |-> Null, isPct |-> FALSE] }

WithTarget(c, t) ==
    [id |-> c.id, fn |-> c.fn, isPace |-> c.isPace, separator |-> c.separator,
     decimals |-> c.decimals, isPct |-> c.isPct, value |-> t]

Cfgs ==
    { WithTarget(c, t) : c \in RunningTargets \cup VenueTargets \cup GoalTargets, t \in Targets }
    \cup { WithTarget(c, 0) : c \in BarTargets }

RECURSIVE groupDigits(_)
\* Number.prototype.toLocaleString of a non-negative integer (en-US grouping)
groupDigits(n) ==
    IF n < 1000 THEN ToString(n)
    ELSE LET low == n % 1000
             pad == IF low < 10 THEN "00" ELSE IF low < 100 THEN "0" ELSE ""
         IN  groupDigits(n \div 1000) \o "," \o pad \o ToString(low)

\* Number.prototype.toFixed(k) of n/d >= 0, for k = 0 or 1
toFixed(n, d, k) ==
    LET whole  == n \div d
        tenths == whole * 10 + MathRound((n - whole * d) * 10, d)
    IN  IF k = 1 THEN ToString(tenths \div 10) \o "." \o ToString(tenths % 10)
        ELSE ToString(MathRound(n, d))

\* progress = Math.min(elapsed / duration, 1) as a fraction <<n, d>>. With
\* elapsed = e ticks this is (e * Duration / TicksPerDuration) / Duration.
ProgressUnclamped(e) == <<e, TicksPerDuration>>
Progress(e) == <<Min(e, TicksPerDuration), TicksPerDuration>>

\* ease = 1 - Math.pow(1 - progress, 3), as a fraction
Ease(p) ==
    LET r == p[2] - p[1]
    IN  <<p[2] * p[2] * p[2] - r * r * r, p[2] * p[2] * p[2]>>

\* the textContent tick writes for the value n/d
Format(c, n, d) ==
    CASE c.fn = "animateCounter" ->
            IF c.isPace THEN formatPace(n, d)
            ELSE IF c.separator THEN groupDigits(MathRound(n, d))
            ELSE IF c.decimals = 0 THEN ToString(MathRound(n, d))
            ELSE toFixed(n, d, c.decimals)
      [] c.fn = "animateCounterVenue" ->
            IF c.separator THEN groupDigits(MathRound(n, d))
            ELSE IF c.decimals = 0 THEN ToString(MathRound(n, d))
            ELSE toFixed(n, d, c.decimals)
      [] c.fn = "animateGoalCounter" ->
            IF c.isPct THEN toFixed(n, d, c.decimals) \o "%"
            ELSE toFixed(n, d, c.decimals)
      [] OTHER -> Unset

\* whether tick asks for another frame: if (progress < 1) requestAnimationFrame(tick)
AgainNever(p) == FALSE
Again(p) == p[1] < p[2]

\* one run of the closure tick(now) created at time start
tick(c, start, t) ==
    LET elapsed  == t - start
        progress == Progress(elapsed)
        ease     == Ease(progress)
    IN  [ text    |-> Format(c, c.value * ease[1], Scale * ease[2]),
          elapsed |-> elapsed,
          again   |-> Again(progress),
          start   |-> start ]

\* elements carrying the class 'reveal' that the shared revealObserver observes
RevealEls == {"card-0", "card-1"}

CounterInit ==
    /\ cfg \in Cfgs
    /\ elPresent \in BOOLEAN
    \* renderStatCards and the bar renderers make no observer for an absent
    \* element; renderGoalTracker observes the tracker, not the counter element
    /\ observing = (elPresent \/ cfg.fn = "animateGoalCounter")
    /\ notified = 0
    /\ sawIntersecting = FALSE
    /\ cbRuns = 0
    /\ phase = "idle"
    /\ frames = <<>>
    /\ now = 0
    /\ display = Unset
    /\ lastElapsed = -1
    /\ revealObserved = RevealEls
    /\ revealSaw = {}
    /\ visibleAdds = [e \in RevealEls |-> 0]

CounterIdle ==
    /\ cfg = CHOOSE c \in Cfgs : c.id = "bar-chart"
    /\ elPresent = FALSE
    /\ observing = FALSE
    /\ notified = 0
    /\ sawIntersecting = FALSE
    /\ cbRuns = 0
    /\ phase = "idle"
    /\ frames = <<>>
    /\ now = 0
    /\ display = Unset
    /\ lastElapsed = -1
    /\ revealObserved = {}
    /\ revealSaw = {}
    /\ visibleAdds = [e \in RevealEls |-> 0]

\* animateCounter(el, cfg) / animateGoalCounter(el, target, decimals, isPct):
\* start = performance.now(); requestAnimationFrame(tick)
animateCounter ==
    IF cfg.fn = "addAnimateClass" \/ (cfg.fn = "animateGoalCounter" /\ ~elPresent)
    THEN UNCHANGED <<phase, frames>>
    ELSE /\ phase' = "animating"
         /\ frames' = Append(frames, now)

\* the IntersectionObserver callback of one stat card, goal tracker or bar
\* container, handed entries[0].isIntersecting
ObserverCallbackKeepsObserving(isIntersecting) ==
    IF isIntersecting
    THEN /\ animateCounter
         /\ cbRuns' = cbRuns + 1
         /\ UNCHANGED observing
    ELSE UNCHANGED <<phase, frames, cbRuns, observing>>
ObserverCallback(isIntersecting) ==
    IF isIntersecting
    THEN /\ animateCounter
         /\ cbRuns' = cbRuns + 1
         /\ observing' = FALSE
    ELSE UNCHANGED <<phase, frames, cbRuns, observing>>

\* The browser notifies an observer of a target it still observes.
Notify ==
    /\ observing
    /\ notified < MaxNotifs
    /\ \E isIntersecting \in BOOLEAN :
          /\ ObserverCallback(isIntersecting)
          /\ sawIntersecting' = (sawIntersecting \/ isIntersecting)
    /\ notified' = notified + 1
    /\ UNCHANGED <<cfg, elPresent, now, display, lastElapsed, paceVars, chartVars, revealVars, pageVars>>

\* revealObserver's callback, handed one entry per element of the batch
revealCallback(batch) ==
    LET hit == {e \in DOMAIN batch : batch[e]}
    IN  /\ visibleAdds' = [e \in RevealEls |-> visibleAdds[e] + (IF e \in hit THEN 1 ELSE 0)]
        /\ revealObserved' = revealObserved \ hit

RevealNotify ==
    /\ notified < MaxNotifs
    /\ \E S \in (SUBSET revealObserved) \ {{}} :
          \E batch \in [S -> BOOLEAN] :
             /\ revealCallback(batch)
             /\ revealSaw' = revealSaw \cup {e \in S : batch[e]}
    /\ notified' = notified + 1
    /\ UNCHANGED <<cfg, elPresent, observing, sawIntersecting, cbRuns, phase, frames,
                   now, display, lastElapsed, paceVars, chartVars, pageVars>>

\* Time passes before the trigger fires.
Wait ==
    /\ phase = "idle"
    /\ now < MaxWait
    /\ now' = now + 1
    /\ UNCHANGED <<cfg, elPresent, observing, notified, sawIntersecting, cbRuns, phase,
                   frames, display, lastElapsed, paceVars, chartVars, revealVars, pageVars>>

\* A display frame: every outstanding callback runs once with the frame's time.
Frame ==
    /\ frames # <<>>
    /\ \E dt \in 1..MaxFrameGap :
          LET t   == now + dt
              ran == [i \in 1..Len(frames) |-> tick(cfg, frames[i], t)]
              again == SelectSeq(ran, LAMBDA r : r.again)
          IN  /\ now' = t
              /\ display' = ran[Len(ran)].text
              /\ lastElapsed' = ran[Len(ran)].elapsed
              /\ frames' = [i \in 1..Len(again) |-> again[i].start]
              /\ phase' = IF \E i \in 1..Len(ran) : ~ran[i].again THEN "settled" ELSE phase
    /\ UNCHANGED <<cfg, elPresent, observing, notified, sawIntersecting, cbRuns,
                   paceVars, chartVars, revealVars, pageVars>>

NextCounter == Notify \/ RevealNotify \/ Wait \/ Frame

-----------------------------------------------------------------------------
(* Bar charts: the bound and the rows' fill widths                          *)

\* Rows a sequence may hold and the rows of an arbitrary short sequence.
MaxRows == 13
MaxShort == 3

\* magnitudes (counts, tenths of a mile, minutes, hours)
Magnitudes == {0, 1, 4, 9}
\* a sequence of n rows that all hold lo, but for hi at position p
Spike(n, p, hi, lo) == [i \in 1..n |-> IF i = p THEN hi ELSE lo]
ValueSeqs ==
    SeqsUpTo(Magnitudes, MaxShort)
    \cup { Spike(n, p, hi, lo) : n \in (MaxShort + 1)..MaxRows, p \in {1, 2, 10, 11, 12, MaxRows},
                                 hi \in {4, 9}, lo \in {0, 1} }

RECURSIVE MathMinSpread(_, _)
\* Math.min(...values, last)
MathMinSpread(values, last) ==
    IF values = <<>> THEN last
    ELSE LET m == MathMinSpread(Tail(values), last) IN IF Head(values) < m THEN Head(values) ELSE m
\* the greatest of values, without the floor
MathMaxNoFloor(values, last) ==
    IF values = <<>> THEN 0
    ELSE CHOOSE v \in { values[i] : i \in 1..Len(values) } :
            \A i \in 1..Len(values) : v >= values[i]
RECURSIVE MathMaxSpread(_, _)
\* Math.max(...values, last)
MathMaxSpread(values, last) ==
    IF values = <<>> THEN last
    ELSE LET m == MathMaxSpread(Tail(values), last) IN IF Head(values) > m THEN Head(values) ELSE m

\* (value / bound) * 100, as the fraction n/d of a percent
Percent(value, bound) == [n |-> value * 100, d |-> bound]

\* rows scaled by the first value instead of the greatest
BarRowsFirstBound(values) ==
    LET bound == IF values = <<>> THEN 1 ELSE Max(Head(values), 1)
    IN  [ bound |-> bound,
          rows  |-> [i \in 1..Len(values) |->
                       [value |-> values[i], width |-> Percent(values[i], bound)]] ]
\* const max = Math.max(...items.map(...), 1); per row: width (v / max) * 100 %
BarRows(values) ==
    LET bound == MathMaxSpread(values, 1)
    IN  [ bound |-> bound,
          rows  |-> [i \in 1..Len(values) |->
                       [value |-> values[i], width |-> Percent(values[i], bound)]] ]

LeaderboardTop == 10
MonthlyRecent == 12
\* items.slice(0, 10)
SliceAll(items) == items
SliceTop(items) == SubSeq(items, 1, Min(Len(items), LeaderboardTop))
\* visitsByMonth.slice(-12)
SliceRecent(items) == SubSeq(items, Max(1, Len(items) - MonthlyRecent + 1), Len(items))

barChartRows(weeklyMileage) == BarRows(weeklyMileage)
workoutTypeRows(types) == BarRows(types)
categoryBarRows(breakdown) == BarRows(breakdown)
monthlyBarRows(visitsByMonth) == BarRows(SliceRecent(visitsByMonth))
leaderboardRows(items) == BarRows(SliceTop(items))

NoChart == [fn |-> "(none)"]
ChartIdle ==
    /\ chartIn = [kind |-> "(none)"]
    /\ chartOut = NoChart

\* The renderer fn is called with chartIn, an argument of the kind it takes.
Render(kind, fn, out) ==
    /\ chartIn.kind = kind
    /\ chartOut = NoChart
    /\ chartOut' = [fn |-> fn, out |-> out]
    /\ UNCHANGED <<chartIn, paceVars, ctrVars, revealVars, pageVars>>

RenderBarChart == Render("values", "renderBarChart", barChartRows(chartIn.values))
RenderWorkoutTypes == Render("values", "renderWorkoutTypes", workoutTypeRows(chartIn.values))
RenderCategoryBars == Render("values", "renderCategoryBars", categoryBarRows(chartIn.values))
RenderMonthlyBars == Render("values", "renderMonthlyBars", monthlyBarRows(chartIn.values))
RenderLeaderboard == Render("values", "renderLeaderboard", leaderboardRows(chartIn.values))

-----------------------------------------------------------------------------
(* The calendar heatmap, the venue markers and the regional bounding box    *)

MaxMonths == 2
MaxDays == 2
MaxPoints == 2

\* day.active_minutes
Minutes == {0, 1, 45}
DaySeqs == SeqsUpTo(Minutes, MaxDays) \ {<<>>}
\* calendars: months with the weekday of their first date (Date.getDay(),
\* 0 = Sunday) and their days' active minutes; one month starting on any
\* weekday, or several months starting on a Wednesday
CalendarInputs ==
    { << [firstDay |-> d, days |-> ds] >> : d \in 0..6, ds \in DaySeqs }
    \cup (SeqsUpTo({ [firstDay |-> 3, days |-> ds] : ds \in DaySeqs }, MaxMonths) \ {<<>>})

RECURSIVE flatMapDays(_)
\* calendars.flatMap((c) => c.days)
flatMapDays(calendars) ==
    IF calendars = <<>> THEN <<>>
    ELSE Head(calendars).days \o flatMapDays(Tail(calendars))

\* dayOfWeek = dayOfWeek === 0 ? 6 : dayOfWeek - 1
MondayFirstSundayZero(getDay) == getDay
MondayFirst(getDay) == IF getDay = 0 THEN 6 ELSE getDay - 1

\* Math.max(0.2, intensity) with intensity = active_minutes / maxMin
IntensityNoFloor(minutes, maxMin) == [n |-> minutes, d |-> maxMin]
Intensity(minutes, maxMin) ==
    IF 5 * minutes > maxMin THEN [n |-> minutes, d |-> maxMin] ELSE [n |-> 1, d |-> 5]

\* one day's cell: class 'active' and --intensity only if (day.active_minutes > 0)
calendarCell(minutes, maxMin) ==
    IF minutes > 0
    THEN [minutes |-> minutes, active |-> TRUE, intensity |-> <<Intensity(minutes, maxMin)>>]
    ELSE [minutes |-> minutes, active |-> FALSE, intensity |-> <<>>]

calendarMonths(calendars) ==
    LET maxMin == MathMaxSpread(flatMapDays(calendars), 1)
    IN  [ bound  |-> maxMin,
          months |-> [k \in 1..Len(calendars) |->
                        [ getDay |-> calendars[k].firstDay,
                          blanks |-> MondayFirst(calendars[k].firstDay),
                          cells  |-> [i \in 1..Len(calendars[k].days) |->
                                        calendarCell(calendars[k].days[i], maxMin)] ]] ]

RenderCalendars == Render("calendars", "renderCalendars", calendarMonths(chartIn.calendars))

\* venue.lat / venue.lng: both non-zero numbers, one of them 0, or no field
VenueKinds == {"ok", "zero", "none"}
\* venue records: coordinates (both non-zero, one of them 0, or missing) and visit_count
VenueRecords == { [geo |-> g, visit_count |-> c] : g \in VenueKinds, c \in {0, 1, 9} }
VenueInputs == SeqsUpTo(VenueRecords, MaxPoints)

\* 6 + (venue.visit_count / maxVisits) * 14, as the fraction n/d of a pixel
Radius(visit_count, maxVisits) == [n |-> 6 * maxVisits + 14 * visit_count, d |-> maxVisits]

\* if (!venue.lat || !venue.lng) return;
HasCoordinates(venue) == venue.geo = "ok"

\* the markers renderVenueMap puts on its map, and whether it fits the viewport
venueMarkers(all_venues) ==
    LET maxVisits == MathMaxSpread([i \in 1..Len(all_venues) |-> all_venues[i].visit_count], 1)
        plotted   == SelectSeq([i \in 1..Len(all_venues) |-> i],
                               LAMBDA i : HasCoordinates(all_venues[i]))
    IN  [ bound   |-> maxVisits,
          markers |-> [k \in 1..Len(plotted) |->
                         [ venue  |-> plotted[k],
                           radius |-> Radius(all_venues[plotted[k]].visit_count, maxVisits) ]],
          fitted  |-> Len(plotted) > 0 ]

RenderVenueMarkers == Render("venues", "renderVenueMap", venueMarkers(chartIn.all_venues))

\* start_latlng[0] or [1] of a region's entries, in degrees
Degrees == {-120, -119, -75, 0, 10}
AxisInputs == SeqsUpTo(Degrees, MaxPoints + 1) \ {<<>>}

\* Math.max(span * 0.2, 4), in tenths of a degree
PaddingNoFloor(values) ==
    (MathMaxSpread(Tail(values), Head(values)) - MathMinSpread(Tail(values), Head(values))) * 2
Padding(values) ==
    Max((MathMaxSpread(Tail(values), Head(values)) - MathMinSpread(Tail(values), Head(values))) * 2,
        40)

\* one axis of regionBbox: [min - pad, max + pad], in tenths of a degree
regionAxis(values) ==
    [ pad |-> Padding(values),
      lo  |-> 10 * MathMinSpread(Tail(values), Head(values)) - Padding(values),
      hi  |-> 10 * MathMaxSpread(Tail(values), Head(values)) + Padding(values) ]

RenderRegionBox == Render("axis", "renderRegionMap", regionAxis(chartIn.values))

-----------------------------------------------------------------------------
(* A page session: datasets, page layouts, the script's variables           *)

\* Records a fetched sequence may hold, the toggle clicks of a session and
\* the elements a layout may lack.
MaxRuns == 2
MaxFeatured == 2
MaxVenues == 2
MaxToggles == 2
MaxAbsent == 1

\* A JavaScript array, and the value of a variable or field that holds no object.
List(items) == [items |-> items]
NullRef == [null |-> TRUE]
ListsUpTo(S, n) == { List(q) : q \in SeqsUpTo(S, n) }

\* run.coordinates: a non-empty list of points, an empty list, or no field
RunKinds == {"pts", "empty", "none"}
\* the running dataset, as far as the maps read it: recent_runs (or no field)
RunDatasets ==
    { [recent_runs |-> rs] : rs \in ListsUpTo(RunKinds, MaxRuns) \cup {NullRef} }

\* a featured-routes entry: continent, start_latlng (a [lat, lng] pair, a
\* list of fewer than two numbers, or no field) and featured_run.coordinates
EntryKinds ==
    { [continent |-> "na", start_latlng |-> "pair", coordinates |-> "pts"],
      [continent |-> "eu", start_latlng |-> "pair", coordinates |-> "pts"],
      [continent |-> "eu", start_latlng |-> "pair", coordinates |-> "none"],
      [continent |-> "na", start_latlng |-> "short", coordinates |-> "pts"],
      [continent |-> "na", start_latlng |-> "none", coordinates |-> "pts"] }
FeaturedDatasets == ListsUpTo(EntryKinds, MaxFeatured)

VenueDatasets ==
    { [all_venues |-> vs] : vs \in ListsUpTo(VenueKinds, MaxVenues) \cup {NullRef} }

\* The datasets of a session that varies the layout instead of the data.
LayoutRunDatasets == { [recent_runs |-> List(<<"pts", "none">>)] }
LayoutFeaturedDatasets ==
    { List(<< [continent |-> "na", start_latlng |-> "pair", coordinates |-> "pts"],
              [continent |-> "eu", start_latlng |-> "pair", coordinates |-> "none"] >>) }
LayoutVenueDatasets == { [all_venues |-> List(<<"ok", "none">>)] }

\* ids the running script looks up with getElementById / querySelector
RunningEls ==
    { "month-label", "stat-cards", "goal-fill", "goal-runner", "goal-tracker",
      "stat-distance", "stat-runs", "stat-pace", "stat-time", "stat-elevation",
      "calendar-dual", "bar-chart", "type-bars", "route-cards",
      "featured-route-cards", "featured-map-na", "featured-map-eu" }
\* ids the venue script looks up
VenueEls ==
    { "fun-subtitle", "stat-cards", "stat-venues", "stat-visits", "stat-hours",
      "stat-cities", "category-bars", "monthly-bars", "venue-map",
      "leaderboard-visits", "leaderboard-hours" }

PageEls(pg) == IF pg = "running" THEN RunningEls ELSE VenueEls
Layouts(pg) ==
    { PageEls(pg) \ A : A \in { B \in SUBSET PageEls(pg) : Cardinality(B) <= MaxAbsent } }

\* a region map container holding only its label
EmptyRegion ==
    [svgs |-> 0, tooltips |-> 0, land |-> FALSE, markers |-> {}, dark |-> FALSE, finite |-> TRUE]

\* The script's variables and what it wrote to the page, after the script ran
\* and before any fetch resolved.
\* requestAnimationFrame's return value: an id no request has had (ids are
\* never reused; the least id that is neither outstanding nor remembered)
FreshId(s) ==
    CHOOSE n \in 1..(Cardinality(s.rafPending) + 2) :
       /\ n \notin s.rafPending \cup {s.animationId}
       /\ \A m \in 1..(n - 1) : m \in s.rafPending \cup {s.animationId}
\* animate(): draw a frame; animationId = requestAnimationFrame(animate)
animate(s) ==
    [s EXCEPT !.rafPending = @ \cup {FreshId(s)}, !.animationId = FreshId(s)]
cancelNothing(s) == s
\* cancelAnimationFrame(animationId)
cancelAnimationFrame(s) == [s EXCEPT !.rafPending = @ \ {s.animationId}]
\* initCanvas(): if (!prefersReducedMotion.matches) { animate(); } else { static drawing }
initCanvas(s) == IF ~s.reducedMotion THEN animate(s) ELSE s

\* What localStorage may hold under 'theme' when the script starts: no item
\* (Null), a value the script wrote, or a string of another origin
StoredThemes == {Null, "dark", "light", "auto"}
\* const savedTheme = localStorage.getItem('theme') || 'dark'
savedTheme(item) == IF item = Null THEN "dark" ELSE item

JsInit(item, rm) == initCanvas(
    [ \* setTheme(savedTheme): root's data-theme attribute, localStorage's 'theme'
      theme                |-> savedTheme(item),
      localTheme           |-> savedTheme(item),
      animationId          |-> 0,      \* 0: let animationId; (undefined)
      rafPending           |-> {},     \* ids of the scheduled animate callbacks
      reducedMotion        |-> rm,     \* prefersReducedMotion.matches
      runData              |-> NullRef,
      brewData             |-> NullRef,
      featuredData         |-> NullRef,
      worldTopoData        |-> Null,
      mapInstances         |-> <<>>,   \* handles: ids of map instances
      featuredMapInstances |-> <<>>,
      venueMapInstance     |-> <<>>,   \* no handle (null) or one handle
      nextId               |-> 1,      \* the next map instance's id
      liveMaps             |-> {},     \* instances created and not removed
      removals             |-> <<>>,   \* per instance id: calls of its remove()
      statusText           |-> "",     \* #month-label / #fun-subtitle
      statCardsHtml        |-> "",     \* #stat-cards innerHTML written by .catch
      rendered             |-> {},     \* containers a renderer filled
      cardEls              |-> {},     \* elements the card renderers created
      \* per coloured chart: its rows' category and inline background colour
      fills                |-> [id \in {"category-bars", "leaderboard-visits",
                                        "leaderboard-hours"} |-> <<>>],
      timers               |-> {},     \* pending setTimeout callbacks
      region               |-> [r \in {"na", "eu"} |-> EmptyRegion],
      threw                |-> Null ]) \* the function that threw, while unwinding

\* The state after the statement that follows s: next, unless an exception
\* is unwinding from s.
Then(s, next) == IF s.threw # Null THEN s ELSE next
Throw(s, fn) == [s EXCEPT !.threw = fn]

IsDark(s) == s.theme # "light"
\* getTileUrl()
getTileUrl(s) == IF IsDark(s) THEN "dark_all" ELSE "light_all"

\* m.remove() for every handle of hs: the instance leaves the page
RemoveNone(s, hs) == s
RemoveAll(s, hs) ==
    LET ids == { hs[i] : i \in 1..Len(hs) }
    IN  [s EXCEPT !.liveMaps = { m \in @ : m.id \notin ids },
                  !.removals = [ id \in DOMAIN @ |->
                                   @[id] + Cardinality({ i \in 1..Len(hs) : hs[i] = id }) ]]

\* L.map(mapEl, ...) with its tile layer and overlays: a new live instance
NewMapAlwaysFitted(s, slot, markers, fitted) ==
    [s EXCEPT !.liveMaps = @ \cup { [id |-> s.nextId, slot |-> slot, tiles |-> getTileUrl(s),
                                     dark |-> IsDark(s), markers |-> markers, fitted |-> TRUE] },
              !.removals = Append(@, 0),
              !.nextId = @ + 1]
NewMap(s, slot, markers, fitted) ==
    [s EXCEPT !.liveMaps = @ \cup { [id |-> s.nextId, slot |-> slot, tiles |-> getTileUrl(s),
                                     dark |-> IsDark(s), markers |-> markers, fitted |-> fitted] },
              !.removals = Append(@, 0),
              !.nextId = @ + 1]

ElId(prefix, i) == prefix \o ToString(i - 1)

RECURSIVE routeMapsFrom(_, _, _)
\* runData.recent_runs.forEach((run, i) => ...) of renderMaps, from index i
routeMapsFrom(s, runs, i) ==
    IF i > Len(runs) THEN s
    ELSE IF ElId("map-", i) \notin s.cardEls \/ runs[i] = "none" \/ runs[i] = "empty"
         THEN routeMapsFrom(s, runs, i + 1)
         ELSE LET s1 == NewMap(s, ElId("map-", i), {}, TRUE)
              IN  routeMapsFrom([s1 EXCEPT !.mapInstances = Append(@, s.nextId)], runs, i + 1)

renderMapsUnguarded(s) ==
    LET s1 == [RemoveAll(s, s.mapInstances) EXCEPT !.mapInstances = <<>>]
    IN  IF s1.runData = NullRef \/ s1.runData.recent_runs = NullRef
        THEN Throw(s1, "renderMaps")
        ELSE routeMapsFrom(s1, s1.runData.recent_runs.items, 1)
renderMaps(s) ==
    LET s1 == [RemoveAll(s, s.mapInstances) EXCEPT !.mapInstances = <<>>]
    IN  IF s1.runData = NullRef \/ s1.runData.recent_runs = NullRef THEN s1
        ELSE routeMapsFrom(s1, s1.runData.recent_runs.items, 1)

RECURSIVE featuredMapsFrom(_, _, _)
\* featuredData.forEach((entry, i) => ...) of renderFeaturedMaps, from index i
featuredMapsFrom(s, entries, i) ==
    IF i > Len(entries) THEN s
    ELSE IF ElId("featured-map-", i) \notin s.cardEls \/ entries[i].coordinates = "none"
         THEN featuredMapsFrom(s, entries, i + 1)
         ELSE LET s1 == NewMap(s, ElId("featured-map-", i), {}, TRUE)
              IN  featuredMapsFrom([s1 EXCEPT !.featuredMapInstances = Append(@, s.nextId)],
                                   entries, i + 1)

renderFeaturedMaps(s) ==
    LET s1 == [RemoveAll(s, s.featuredMapInstances) EXCEPT !.featuredMapInstances = <<>>]
    IN  IF s1.featuredData = NullRef THEN s1
        ELSE featuredMapsFrom(s1, s1.featuredData.items, 1)

\* renderVenueMap(), on a page whose markup is els
renderVenueMap(s, els) ==
    LET s1 == IF s.venueMapInstance # <<>>
              THEN [RemoveAll(s, s.venueMapInstance) EXCEPT !.venueMapInstance = <<>>]
              ELSE s
    IN  IF \/ s1.brewData = NullRef
           \/ s1.brewData.all_venues = NullRef
           \/ Len(s1.brewData.all_venues.items) = 0
        THEN s1
        ELSE IF "venue-map" \notin els THEN s1
        ELSE LET vs     == s1.brewData.all_venues.items
                 \* if (!venue.lat || !venue.lng) return;
                 bounds == { i \in 1..Len(vs) : vs[i] = "ok" }
                 s2     == NewMap(s1, "venue-map", bounds, bounds # {})
             IN  [s2 EXCEPT !.venueMapInstance = <<s1.nextId>>]

\* the entries of featuredData whose continent is c, as indices into featuredData
RegionIndices(entries, c) ==
    SelectSeq([i \in 1..Len(entries) |-> i], LAMBDA i : entries[i].continent = c)

\* renderRegionMap('featured-map-' + c, regionData), regionData given as
\* indices into featuredData
\* mapEl.querySelectorAll('svg, .region-tooltip').forEach((el) => el.remove())
removeNothing(s, c) == s
removeSvgAndTooltip(s, c) == [s EXCEPT !.region[c] = EmptyRegion]

renderRegionMap(s, els, c, regionData) ==
    IF "featured-map-" \o c \notin els THEN s
    ELSE IF Len(regionData) = 0 THEN s
    ELSE LET entry(k) == s.featuredData.items[regionData[k]]
             ks       == 1..Len(regionData)
             s1       == removeSvgAndTooltip(s, c)
         IN  \* regionData.map((d) => d.start_latlng[1]) reads an index of undefined
             IF \E k \in ks : entry(k).start_latlng = "none"
             THEN Throw(s1, "renderRegionMap")
             ELSE [s1 EXCEPT !.region[c] =
                     [ \* d3.select(mapEl).append('svg'), .append('div') of the tooltip
                       svgs     |-> s1.region[c].svgs + 1,
                       tooltips |-> s1.region[c].tooltips + 1,
                       \* if (worldTopoData) { ... land masses ... }
                       land     |-> s.worldTopoData # Null,
                       \* if (!entry.start_latlng || entry.start_latlng.length < 2) return;
                       markers  |-> { regionData[k] : k \in { j \in ks : entry(j).start_latlng = "pair" } },
                       dark     |-> IsDark(s),
                       \* Math.max over a list holding undefined is NaN
                       finite   |-> \A k \in ks : entry(k).start_latlng = "pair" ]]

renderWorldMap(s, els) ==
    IF s.featuredData = NullRef \/ Len(s.featuredData.items) = 0 THEN s
    ELSE LET s1 == renderRegionMap(s, els, "na", RegionIndices(s.featuredData.items, "na"))
         IN  Then(s1, renderRegionMap(s1, els, "eu", RegionIndices(s1.featuredData.items, "eu")))

\* a renderer that starts with: if (!container) return;
FillGuarded(s, els, id) ==
    IF id \notin els THEN s ELSE [s EXCEPT !.rendered = @ \cup {id}]

renderFeaturedCards(s, els, data) ==
    IF "featured-route-cards" \notin els THEN Throw(s, "renderFeaturedCards")
    ELSE [s EXCEPT !.rendered = @ \cup {"featured-route-cards"},
                   !.cardEls = @ \cup { ElId("featured-card-", i) : i \in 1..Len(data.items) }
                                 \cup { ElId("featured-map-", i) : i \in 1..Len(data.items) }]

renderFeaturedSection(s, els, data) ==
    LET s1 == renderFeaturedCards(s, els, data)
    IN  Then(s1, [s1 EXCEPT !.timers = @ \cup {"featured"}])

renderGoalTracker(s, els) ==
    IF "goal-fill" \notin els \/ "goal-runner" \notin els THEN s
    \* observer.observe(tracker) with tracker null
    ELSE IF "goal-tracker" \notin els THEN Throw(s, "renderGoalTracker")
    ELSE [s EXCEPT !.rendered = @ \cup {"goal-tracker"}]

RunningStatIds == {"stat-distance", "stat-runs", "stat-pace", "stat-time", "stat-elevation"}
VenueStatIds == {"stat-venues", "stat-visits", "stat-hours", "stat-cities"}
\* renderStatCards: if (!el) return; for each target
renderStatCards(s, els, ids) == [s EXCEPT !.rendered = @ \cup (ids \cap els)]

renderCalendars(s, els) ==
    IF "calendar-dual" \notin els THEN Throw(s, "renderCalendars")
    ELSE [s EXCEPT !.rendered = @ \cup {"calendar-dual"}]
renderBarChart(s, els) ==
    IF "bar-chart" \notin els THEN Throw(s, "renderBarChart")
    ELSE [s EXCEPT !.rendered = @ \cup {"bar-chart"}]
renderWorkoutTypes(s, els) ==
    IF "type-bars" \notin els THEN Throw(s, "renderWorkoutTypes")
    ELSE [s EXCEPT !.rendered = @ \cup {"type-bars"}]

renderRouteCards(s, els, runs) ==
    IF "route-cards" \notin els THEN Throw(s, "renderRouteCards")
    \* runs.forEach of undefined
    ELSE IF runs = NullRef THEN Throw(s, "renderRouteCards")
    ELSE [s EXCEPT !.rendered = @ \cup {"route-cards"},
                   !.cardEls = @ \cup { ElId("map-", i) : i \in 1..Len(runs.items) },
                   !.timers = @ \cup {"renderMaps"}]

\* renderAll(data) of the running page
renderAllRunning(s, els, data) ==
    LET s0 == IF "month-label" \notin els THEN Throw(s, "renderAll")
              ELSE [s EXCEPT !.statusText = "Year to Date"]
        s1 == Then(s0, renderGoalTracker(s0, els))
        s2 == Then(s1, renderStatCards(s1, els, RunningStatIds))
        s3 == Then(s2, renderCalendars(s2, els))
        s4 == Then(s3, renderBarChart(s3, els))
        s5 == Then(s4, renderWorkoutTypes(s4, els))
    IN  Then(s5, renderRouteCards(s5, els, data.recent_runs))

CATEGORY_COLORS ==
    [ dark  |-> [ brewery |-> "#00d4ff", bar |-> "#00ff88", winery |-> "#ff6b35",
                  distillery |-> "#a855f7", cidery |-> "#f59e0b", other |-> "#888888" ],
      light |-> [ brewery |-> "#0088cc", bar |-> "#00994d", winery |-> "#d45a2a",
                  distillery |-> "#7c3aed", cidery |-> "#d97706", other |-> "#555566" ] ]

\* Properties a table of CATEGORY_COLORS inherits from Object.prototype (among
\* others): a property read finds them when the table has no own property of
\* that name, and their values are functions, which are truthy.
ObjectPrototype ==
    [ constructor |-> "function Object() { [native code] }",
      toString    |-> "function toString() { [native code] }" ]

\* obj[key] of a table made by an object literal; Null stands for undefined
Get(obj, key) ==
    IF key \in DOMAIN obj THEN obj[key]
    ELSE IF key \in DOMAIN ObjectPrototype THEN ObjectPrototype[key]
    ELSE Null

getCategoryColor(s, category) ==
    LET mode == IF s.theme = "light" THEN "light" ELSE "dark"
    IN  IF Get(CATEGORY_COLORS[mode], category) # Null
        THEN Get(CATEGORY_COLORS[mode], category) ELSE CATEGORY_COLORS[mode].other

\* Category keys of venue records: the enumerated ones, unlisted ones and the
\* key of a record without a category ("undefined").
CategoryKeys ==
    DOMAIN CATEGORY_COLORS.dark \cup {"tiki", "undefined", "constructor", "toString"}
CategoryInputs ==
    { [kind |-> "category", category |-> c, themes |-> << t1, t2 >>] :
         c \in CategoryKeys, t1 \in {"dark", "light"}, t2 \in {"dark", "light"} }

\* getCategoryColor(category) called once under each data-theme of themes
categoryColors(category, themes) ==
    [i \in 1..Len(themes) |-> getCategoryColor([theme |-> themes[i]], category)]

RenderCategoryColors ==
    Render("category", "getCategoryColor", categoryColors(chartIn.category, chartIn.themes))

\* The categories of the rows of data.summary.category_breakdown,
\* data.top_by_visits and data.top_by_hours in the venue dataset.
category_breakdown == <<"brewery", "bar", "tiki">>
top_by_visits == <<"bar", "winery">>
top_by_hours == <<"distillery", "brewery">>

\* the rows' fill elements: fill.style.background = getCategoryColor(category)
ColouredRows(s, categories) ==
    [i \in 1..Len(categories) |->
        [category |-> categories[i], background |-> getCategoryColor(s, categories[i])]]

renderCategoryBars(s, els) ==
    IF "category-bars" \notin els THEN s
    ELSE [FillGuarded(s, els, "category-bars") EXCEPT
             !.fills["category-bars"] = ColouredRows(s, category_breakdown)]
renderMonthlyBars(s, els) == FillGuarded(s, els, "monthly-bars")
renderLeaderboard(s, els, containerId, items) ==
    IF containerId \notin els THEN s
    ELSE [FillGuarded(s, els, containerId) EXCEPT
             !.fills[containerId] = ColouredRows(s, items)]

\* renderAll(data) of the venue page
renderAllVenue(s, els, data) ==
    LET s0 == IF "fun-subtitle" \in els THEN [s EXCEPT !.statusText = "venues tracked"] ELSE s
        s1 == renderStatCards(s0, els, VenueStatIds)
        s2 == renderCategoryBars(s1, els)
        s3 == renderMonthlyBars(s2, els)
        s4 == [s3 EXCEPT !.timers = @ \cup {"renderVenueMap"}]
        s5 == renderLeaderboard(s4, els, "leaderboard-visits", top_by_visits)
    IN  renderLeaderboard(s5, els, "leaderboard-hours", top_by_hours)

Fallback == "No data available yet"

\* the primary fetch's .catch(() => { ... }) of the running page
primaryCatchRunning(s, els) ==
    IF "month-label" \notin els THEN Throw(s, "catch")
    ELSE LET s1 == [s EXCEPT !.statusText = Fallback]
         IN  IF "stat-cards" \notin els THEN Throw(s1, "catch")
             ELSE [s1 EXCEPT !.statCardsHtml = "error-card"]

\* the primary fetch's .catch(() => { ... }) of the venue page
primaryCatchVenue(s, els) ==
    LET s1 == IF "fun-subtitle" \in els THEN [s EXCEPT !.statusText = Fallback] ELSE s
    IN  IF "stat-cards" \in els THEN [s1 EXCEPT !.statCardsHtml = "error-card"] ELSE s1

primaryThen(s, pg, els, data) ==
    IF pg = "running" THEN renderAllRunning([s EXCEPT !.runData = data], els, data)
    ELSE renderAllVenue([s EXCEPT !.brewData = data], els, data)

primaryCatch(s, pg, els) ==
    IF pg = "running" THEN primaryCatchRunning(s, els) ELSE primaryCatchVenue(s, els)

Cleared(s) == [s EXCEPT !.threw = Null]
Thrown(s, tag) == IF s.threw # Null THEN {tag} ELSE {}

PrimaryDatasets ==
    IF page = "running"
    THEN (IF slice = "runs" THEN RunDatasets ELSE LayoutRunDatasets)
    ELSE (IF slice = "venues" THEN VenueDatasets ELSE LayoutVenueDatasets)

\* The primary fetch fails: a rejected fetch, a response that is not ok, or a
\* body that is not JSON all reach .catch.
PrimaryFails ==
    /\ primary = "pending"
    /\ \E outcome \in {"network-error", "http-error", "bad-json"} :
          LET r == primaryCatch(js, page, present)
          IN  /\ primary' = outcome
              /\ unhandled' = unhandled \cup Thrown(r, "primary")
              /\ js' = Cleared(r)
    /\ UNCHANGED <<page, slice, present, toggles, featured, topo, caught,
                   paceVars, chartVars, ctrVars, revealVars>>

\* The primary fetch succeeds: the second .then runs, and .catch if it threw.
PrimarySucceeds ==
    /\ primary = "pending"
    /\ \E data \in PrimaryDatasets :
          LET r1 == primaryThen(js, page, present, data)
              r2 == IF r1.threw # Null THEN primaryCatch(Cleared(r1), page, present) ELSE r1
          IN  /\ primary' = "ok"
              /\ caught' = caught \cup (IF r1.threw # Null THEN {r1.threw} ELSE {})
              /\ unhandled' = unhandled \cup Thrown(r2, "primary")
              /\ js' = Cleared(r2)
    /\ UNCHANGED <<page, slice, present, toggles, featured, topo,
                   paceVars, chartVars, ctrVars, revealVars>>

\* The featured-routes fetch fails: .catch(() => {}) does nothing.
FeaturedFails ==
    /\ featured = "pending"
    /\ featured' = "failed"
    /\ UNCHANGED <<page, slice, present, toggles, primary, topo, caught, unhandled, js,
                   paceVars, chartVars, ctrVars, revealVars>>

FeaturedSucceeds ==
    /\ featured = "pending"
    /\ \E data \in (IF slice = "featured" THEN FeaturedDatasets ELSE LayoutFeaturedDatasets) :
          LET r == renderFeaturedSection([js EXCEPT !.featuredData = data], present, data)
          IN  /\ featured' = "ok"
              /\ caught' = caught \cup (IF r.threw # Null THEN {r.threw} ELSE {})
              /\ js' = Cleared(r)
    /\ UNCHANGED <<page, slice, present, toggles, primary, topo, unhandled,
                   paceVars, chartVars, ctrVars, revealVars>>

\* d3.json(...).then((data) => { worldTopoData = data; }).catch(() => {})
TopoSucceeds ==
    /\ topo = "pending"
    /\ topo' = "ok"
    /\ js' = [js EXCEPT !.worldTopoData = "topology"]
    /\ UNCHANGED <<page, slice, present, toggles, primary, featured, caught, unhandled,
                   paceVars, chartVars, ctrVars, revealVars>>

TopoFails ==
    /\ topo = "pending"
    /\ topo' = "failed"
    /\ UNCHANGED <<page, slice, present, toggles, primary, featured, caught, unhandled, js,
                   paceVars, chartVars, ctrVars, revealVars>>

\* the callback of a setTimeout(..., 100)
timerCallback(s, els, t) ==
    CASE t = "renderMaps" -> renderMaps(s)
      [] t = "featured" -> LET s1 == renderWorldMap(s, els) IN Then(s1, renderFeaturedMaps(s1))
      [] t = "renderVenueMap" -> renderVenueMap(s, els)

TimerFires ==
    /\ \E t \in js.timers :
          LET r == timerCallback([js EXCEPT !.timers = @ \ {t}], present, t)
          IN  /\ unhandled' = unhandled \cup Thrown(r, "timer:" \o t)
              /\ js' = Cleared(r)
    /\ UNCHANGED <<page, slice, present, toggles, primary, featured, topo, caught,
                   paceVars, chartVars, ctrVars, revealVars>>

\* root.setAttribute('data-theme', theme); localStorage.setItem('theme', theme)
setTheme(s, theme) == [s EXCEPT !.theme = theme, !.localTheme = theme]
\* current === 'dark' ? 'light' : 'dark'
otherTheme(s) == IF s.theme = "dark" THEN "light" ELSE "dark"

\* cancelAnimationFrame(animationId); initCanvas();
restartCanvas(s) == initCanvas(cancelAnimationFrame(s))

\* themeToggle's click listener
themeToggleNoRender(s, pg, els) == restartCanvas(setTheme(s, otherTheme(s)))
themeToggleClick(s, pg, els) ==
    IF pg = "running"
    THEN LET s1 == renderMaps(restartCanvas(setTheme(s, otherTheme(s))))
             s2 == Then(s1, renderFeaturedMaps(s1))
         IN  Then(s2, renderWorldMap(s2, els))
    ELSE renderVenueMap(restartCanvas(setTheme(s, otherTheme(s))), els)

ThemeToggle ==
    /\ toggles < MaxToggles
    /\ toggles' = toggles + 1
    /\ LET r == themeToggleClick(js, page, present)
       IN  /\ unhandled' = unhandled \cup Thrown(r, "click")
           /\ js' = Cleared(r)
    /\ UNCHANGED <<page, slice, present, primary, featured, topo, caught,
                   paceVars, chartVars, ctrVars, revealVars>>

\* What a session varies: the records of one dataset (on the full layout, the
\* other dataset being a fixed one) or the layout (with fixed datasets).
\* A "canvas" session also delivers display frames, window resizes and changes of
\* the reduced-motion preference.
Slices(pg) ==
    IF pg = "running" THEN {"runs", "featured", "layout", "canvas"}
    ELSE {"venues", "layout", "canvas"}

\* The display runs a scheduled animate callback.
CanvasFrame ==
    /\ slice = "canvas"
    /\ \E id \in js.rafPending : js' = animate([js EXCEPT !.rafPending = @ \ {id}])
    /\ UNCHANGED <<page, slice, present, toggles, primary, featured, topo, caught, unhandled,
                   paceVars, chartVars, ctrVars, revealVars>>

\* window 'resize' listener
Resize ==
    /\ slice = "canvas"
    /\ js' = restartCanvas(js)
    /\ UNCHANGED <<page, slice, present, toggles, primary, featured, topo, caught, unhandled,
                   paceVars, chartVars, ctrVars, revealVars>>

\* the (prefers-reduced-motion: reduce) media query changes its result
MotionPreferenceChanges ==
    /\ slice = "canvas"
    /\ js' = [js EXCEPT !.reducedMotion = ~@]
    /\ UNCHANGED <<page, slice, present, toggles, primary, featured, topo, caught, unhandled,
                   paceVars, chartVars, ctrVars, revealVars>>

PageInit ==
    /\ page \in {"running", "venue"}
    /\ slice \in Slices(page)
    /\ present \in (IF slice = "layout" THEN Layouts(page) ELSE {PageEls(page)})
    /\ toggles = 0
    /\ primary = "pending"
    \* only the running page fetches featured routes and the topology
    /\ featured = (IF page = "running" THEN "pending" ELSE "none")
    /\ topo = (IF page = "running" THEN "pending" ELSE "none")
    /\ caught = {}
    /\ unhandled = {}
    \* const savedTheme = localStorage.getItem('theme') || 'dark'; setTheme(savedTheme)
    /\ \E item \in StoredThemes :
          \E rm \in (IF slice = "canvas" THEN BOOLEAN ELSE {FALSE}) : js = JsInit(item, rm)

PageIdle ==
    /\ page = "running"
    /\ slice = "runs"
    /\ present = RunningEls
    /\ toggles = 0
    /\ primary = "pending"
    /\ featured = "pending"
    /\ topo = "pending"
    /\ caught = {}
    /\ unhandled = {}
    /\ js = JsInit("dark", FALSE)

Next ==
    \/ PrimaryFails
    \/ PrimarySucceeds
    \/ FeaturedFails
    \/ FeaturedSucceeds
    \/ TopoSucceeds
    \/ TopoFails
    \/ TimerFires
    \/ ThemeToggle
    \/ CanvasFrame
    \/ Resize
    \/ MotionPreferenceChanges

Init == PaceIdle /\ ChartIdle /\ CounterIdle /\ PageInit
InitCounterSpec == PaceIdle /\ ChartIdle /\ CounterInit /\ PageIdle
InitPaceSpec == PaceInit /\ ChartIdle /\ CounterIdle /\ PageIdle
\* featured-routes.json as parsed: every element of the array is an object of
\* its own, identified by ref, with its continent and the kind of its
\* start_latlng (a [lat, lng] pair, a shorter list, or no field)
MaxEntries == 3
EntryShapes ==
    { [continent |-> c, start_latlng |-> k] :
         c \in {"na", "eu", "as"}, k \in {"pair", "short", "none"} }
JSONParse(shapes) ==
    [i \in 1..Len(shapes) |->
        [ref |-> i, continent |-> shapes[i].continent, start_latlng |-> shapes[i].start_latlng]]
FeaturedInputs == { JSONParse(shapes) : shapes \in SeqsUpTo(EntryShapes, MaxEntries) }

\* featuredData.filter((d) => d.continent === c): the same objects, in order
filterContinent(array, c) == SelectSeq(array, LAMBDA d : d.continent = c)

\* array.indexOf(entry): the first index (from 0) holding that object, or -1
indexOfInRegion(array, entry) ==
    Cardinality({ j \in 1..Len(array) :
                     array[j].continent = entry.continent /\ array[j].ref < entry.ref })
indexOf(array, entry) ==
    IF \E j \in 1..Len(array) : array[j].ref = entry.ref
    THEN (CHOOSE j \in 1..Len(array) :
             /\ array[j].ref = entry.ref
             /\ \A k \in 1..(j - 1) : array[k].ref # entry.ref) - 1
    ELSE -1

\* renderFeaturedCards(data): card.id = `featured-card-${i}` for data[i]
featuredCards(data) ==
    [i \in 1..Len(data) |-> [id |-> ElId("featured-card-", i), ref |-> data[i].ref]]

\* the markers renderRegionMap draws for regionData and the card each click
\* handler looks up; reading start_latlng[1] of an entry without the field
\* throws before anything is drawn
regionMarkers(fData, regionData) ==
    IF \E k \in 1..Len(regionData) : regionData[k].start_latlng = "none" THEN <<>>
    ELSE LET drawn == SelectSeq(regionData, LAMBDA entry : entry.start_latlng = "pair")
         IN  [k \in 1..Len(drawn) |->
                [ ref   |-> drawn[k].ref,
                  click |-> "featured-card-" \o ToString(indexOf(fData, drawn[k])) ]]

\* featuredData = data; renderFeaturedCards(data); renderWorldMap()
featuredSection(data) ==
    [ cards |-> featuredCards(data),
      na    |-> regionMarkers(data, filterContinent(data, "na")),
      eu    |-> regionMarkers(data, filterContinent(data, "eu")) ]

RenderFeaturedSection ==
    Render("featured", "renderFeaturedSection", featuredSection(chartIn.data))

\* const goal = 1000, in miles
goal == 1000
\* summary.total_distance_mi, in tenths of a mile
Distances == {0, 1, 2500, 5234, 9999, 10000, 10001, 15000}

\* progress = Math.min(current / goal, 1), as a fraction n/d
goalProgressUnclamped(tenths) == [n |-> tenths, d |-> 10 * goal]
goalProgress(tenths) ==
    IF tenths < 10 * goal THEN [n |-> tenths, d |-> 10 * goal] ELSE [n |-> 1, d |-> 1]

\* what renderGoalTracker computes from the total distance: the miles run and
\* the miles remaining, in tenths, and the percentage as a fraction
goalTracker(tenths) ==
    [ current   |-> tenths,
      \* remaining = Math.max(goal - current, 0)
      remaining |-> Max(10 * goal - tenths, 0),
      \* pct = progress * 100
      pct       |-> [n |-> goalProgress(tenths).n * 100, d |-> goalProgress(tenths).d] ]

RenderGoalTracker == Render("distance", "renderGoalTracker", goalTracker(chartIn.distance))

\* the arguments a chart renderer may be called with
ChartInputs ==
    { [kind |-> "values", values |-> vs] : vs \in ValueSeqs }
    \cup { [kind |-> "calendars", calendars |-> cs] : cs \in CalendarInputs }
    \cup { [kind |-> "venues", all_venues |-> vs] : vs \in VenueInputs }
    \cup { [kind |-> "axis", values |-> vs] : vs \in AxisInputs }
    \cup CategoryInputs
    \cup { [kind |-> "featured", data |-> d] : d \in FeaturedInputs }
    \cup { [kind |-> "distance", distance |-> d] : d \in Distances }
ChartInit ==
    /\ chartIn \in ChartInputs
    /\ chartOut = NoChart
NextCharts ==
    \/ RenderBarChart
    \/ RenderWorkoutTypes
    \/ RenderCategoryBars
    \/ RenderMonthlyBars
    \/ RenderLeaderboard
    \/ RenderCalendars
    \/ RenderVenueMarkers
    \/ RenderRegionBox
    \/ RenderCategoryColors
    \/ RenderFeaturedSection
    \/ RenderGoalTracker
InitChartSpec == PaceIdle /\ ChartInit /\ CounterIdle /\ PageIdle

Spec == Init /\ [][Next]_vars
SpecPace == InitPaceSpec /\ [][NextPace]_vars
SpecCharts == InitChartSpec /\ [][NextCharts]_vars
SpecCounter == InitCounterSpec /\ [][NextCounter]_vars
\* The display delivers a frame to every requested callback.
FairSpecCounter == SpecCounter /\ WF_vars(Frame)

-----------------------------------------------------------------------------
(* Claims about formatting, counters and visibility triggers               *)

\* C5: formatPace renders decimal minutes as minutes:seconds and carries a
\* rounded-up 60 seconds into the minutes: 6.5 gives "6:30", 0.0 gives "0:00",
\* 10.999 gives "11:00", and the seconds field is always two digits, 00..59.
C5_PaceCarriesIntoMinutes ==
    paceOut # Unset =>
        /\ (paceIn = 6500 => paceOut = "6:30")
        /\ (paceIn = 0 => paceOut = "0:00")
        /\ (paceIn = 10999 => paceOut = "11:00")
        /\ \E m \in {paceIn \div Scale, paceIn \div Scale + 1}, sec \in 0..59 :
              paceOut = ToString(m) \o ":" \o padStart2(ToString(sec))

\* The frame just drawn was the animation's last: its elapsed time had
\* reached the duration (progress = 1), or it asked for no further frame.
LastFrameDrawn ==
    \/ lastElapsed * Duration >= Duration * TicksPerDuration
    \/ phase = "settled"

\* C6: whatever the configuration, the target, the number of frames and
\* their timestamps, the last frame of the animation displays exactly the
\* formatted target value.
C6_FinalFrameShowsTarget ==
    LastFrameDrawn => display = Format(cfg, cfg.value, Scale)

\* a grouped counter settled on a frame that came later than the duration
C6_Witness ==
    /\ phase = "settled"
    /\ cfg.separator
    /\ display = "1,235"
    /\ lastElapsed > TicksPerDuration

\* C7: a counter goes idle -> animating -> settled. It leaves idle only in
\* the step in which its trigger's callback runs; while animating exactly
\* one frame callback is outstanding; a frame settles it exactly when the
\* elapsed time has reached the duration, and a settled counter asks for no
\* further frame; under fair frame delivery a started counter settles.
C7_CounterLifecycle ==
    /\ [](phase = "idle" => frames = <<>> /\ display = Unset)
    /\ [](phase = "animating" => Len(frames) = 1)
    /\ [](phase = "settled" => frames = <<>>)
    /\ [][phase = "idle" /\ phase' # "idle" =>
            phase' = "animating" /\ cbRuns' = cbRuns + 1 /\ sawIntersecting']_vars
    /\ [][phase = "animating" /\ lastElapsed' # lastElapsed =>
            (phase' = "settled" <=> lastElapsed' * Duration >= Duration * TicksPerDuration)]_vars
    /\ [][phase = "settled" => phase' = "settled" /\ display' = display]_vars
    /\ (phase = "animating" ~> phase = "settled")

\* a counter started by its trigger has settled after more than one frame
C7_Witness ==
    /\ phase = "settled"
    /\ cbRuns = 1
    /\ frames = <<>>
    /\ lastElapsed >= TicksPerDuration
    /\ now > lastElapsed

\* C8: a trigger's callback (start the counter, add 'animate', add
\* 'visible') runs exactly once, on the first intersecting notification of
\* its element; from then on the element is unobserved, so a later re-entry
\* into view does nothing.
C8_TriggerIsOneShot ==
    /\ cbRuns <= 1
    /\ (cbRuns = 1 <=> sawIntersecting)
    /\ (sawIntersecting => ~observing)
    /\ \A e \in RevealEls :
          /\ visibleAdds[e] <= 1
          /\ (visibleAdds[e] = 1 <=> e \in revealSaw)
          /\ (e \in revealSaw => e \notin revealObserved)

\* the callback ran on a notification that followed a non-intersecting one,
\* and one reveal element became visible while the other is still observed
C8_Witness ==
    /\ cbRuns = 1
    /\ ~observing
    /\ \E e \in RevealEls : visibleAdds[e] = 1 /\ e \notin revealObserved
    /\ \E e \in RevealEls : visibleAdds[e] = 0 /\ e \in revealObserved

-----------------------------------------------------------------------------
(* Claims about map instances, fetch failures and absent elements           *)

\* the instances the step from js to js' created
CreatedMaps == { m \in js'.liveMaps : m.id >= js.nextId }
\* the route, featured-route and venue slots that have a container and coordinates
RouteSlots(s) ==
    IF s.runData = NullRef \/ s.runData.recent_runs = NullRef THEN {}
    ELSE { ElId("map-", i) : i \in { k \in 1..Len(s.runData.recent_runs.items) :
              /\ ElId("map-", k) \in s.cardEls
              /\ s.runData.recent_runs.items[k] = "pts" } }
FeaturedSlots(s) ==
    IF s.featuredData = NullRef THEN {}
    ELSE { ElId("featured-map-", i) : i \in { k \in 1..Len(s.featuredData.items) :
              /\ ElId("featured-map-", k) \in s.cardEls
              /\ s.featuredData.items[k].coordinates = "pts" } }
VenueSlots(s) ==
    IF s.brewData = NullRef \/ s.brewData.all_venues = NullRef THEN {}
    ELSE IF /\ "venue-map" \in present
            /\ \E k \in 1..Len(s.brewData.all_venues.items) : s.brewData.all_venues.items[k] = "ok"
         THEN {"venue-map"} ELSE {}
MapSlots(s) == RouteSlots(s) \cup FeaturedSlots(s) \cup VenueSlots(s)

OneLivePerSlot ==
    \A m1, m2 \in js.liveMaps : m1.slot = m2.slot => m1.id = m2.id
RemovedAtMostOnce ==
    \A id \in DOMAIN js.removals :
       js.removals[id] = IF \E m \in js.liveMaps : m.id = id THEN 0 ELSE 1
ToggleRebuilds ==
    toggles' = toggles + 1 =>
       /\ \A m \in js.liveMaps :
             /\ js'.removals[m.id] = 1
             /\ Cardinality({ n \in CreatedMaps : n.slot = m.slot }) = 1
       /\ \A slot \in MapSlots(js') :
             Cardinality({ n \in CreatedMaps : n.slot = slot }) = 1
       /\ js'.liveMaps = CreatedMaps

\* C1: whatever fetch completions, 100 ms timers and theme toggles have run,
\* a map slot has at most one live instance and no instance was removed
\* twice; a theme toggle removes every instance that was live exactly once,
\* and creates exactly one instance in each slot that has a container and
\* coordinates, so that every removed instance has one replacement.
C1_OneLiveMapPerSlot ==
    /\ [](OneLivePerSlot /\ RemovedAtMostOnce)
    /\ [][ToggleRebuilds]_vars
\* two toggles have rebuilt at least two maps
C1_Witness ==
    /\ toggles = MaxToggles
    /\ Cardinality(js.liveMaps) >= 2
    /\ \E m \in js.liveMaps : m.id > 4
    /\ \E id \in DOMAIN js.removals : js.removals[id] = 1

PrimaryFailed == primary \in {"network-error", "http-error", "bad-json"}
StatusEl == IF page = "running" THEN "month-label" ELSE "fun-subtitle"

\* C2: once the primary fetch has failed, the status region (when the page
\* has one) shows the fallback message and the failure handler has raised no
\* unhandled rejection, whichever elements the page has.
C2_PrimaryFailureShowsFallback ==
    PrimaryFailed =>
       /\ StatusEl \in present => js.statusText = Fallback
       /\ "primary" \notin unhandled

\* the containers renderAll's renderers fill on a page with the elements els
RenderAllTargets(pg, els) ==
    IF pg = "running"
    THEN ((RunningStatIds \cup {"calendar-dual", "bar-chart", "type-bars", "route-cards"}) \cap els)
         \cup (IF {"goal-fill", "goal-runner", "goal-tracker"} \subseteq els
               THEN {"goal-tracker"} ELSE {})
    ELSE (VenueStatIds \cup {"category-bars", "monthly-bars",
                             "leaderboard-visits", "leaderboard-hours"}) \cap els
PrimaryWellFormed ==
    IF page = "running" THEN js.runData # NullRef /\ js.runData.recent_runs # NullRef
    ELSE js.brewData # NullRef

\* C3: after renderAll ran on a well-formed dataset, on a page that has its
\* status element, no renderer has faulted and every renderer whose container
\* is present has filled it, whichever other containers are absent.
C3_AbsentContainerIsNoOp ==
    (primary = "ok" /\ PrimaryWellFormed /\ StatusEl \in present) =>
       /\ caught = {}
       /\ "primary" \notin unhandled
       /\ "timer:renderVenueMap" \notin unhandled
       /\ RenderAllTargets(page, present) \subseteq js.rendered

RegionMarkersExpected(c) ==
    { i \in 1..Len(js.featuredData.items) :
         /\ js.featuredData.items[i].continent = c
         /\ js.featuredData.items[i].start_latlng = "pair" }

\* C4: on a page with every container, once the deferred renders ran, no
\* geographic renderer has faulted, every record that has coordinates has its
\* map or marker, and a record without coordinates has none.
C4_CoordinatelessRecordSkipped ==
    (present = PageEls(page) /\ js.timers = {}) =>
       /\ unhandled = {}
       /\ \A slot \in MapSlots(js) : \E m \in js.liveMaps : m.slot = slot
       /\ \A m \in js.liveMaps : m.slot = "venue-map" =>
             m.markers = { k \in 1..Len(js.brewData.all_venues.items) :
                              js.brewData.all_venues.items[k] = "ok" }
       /\ featured = "ok" =>
             \A c \in {"na", "eu"} : js.region[c].markers = RegionMarkersExpected(c)

\* the featured-routes fetch left nothing on the page
FeaturedInvisible ==
    /\ js.featuredData = NullRef
    /\ "featured-route-cards" \notin js.rendered
    /\ \A c \in {"na", "eu"} : js.region[c] = EmptyRegion
    /\ \A m \in js.liveMaps : m.slot \in RouteSlots(js)
RegionsDrawn ==
    \A c \in {"na", "eu"} :
       RegionIndices(js.featuredData.items, c) # <<>> => js.region[c].svgs = 1

\* C9: on the running page with every container, for every outcome and
\* order of the three fetches: a primary dataset that arrived with its run
\* list is rendered; a featured list that arrived has its cards and, once
\* its deferred render ran, its regional maps, whether or not the topology
\* arrived; a failed featured fetch leaves nothing on the page and no fault.
C9_FetchesIndependent ==
    (page = "running" /\ present = RunningEls) =>
       /\ (primary = "ok" /\ PrimaryWellFormed) =>
             RenderAllTargets(page, present) \subseteq js.rendered
       /\ featured = "ok" =>
             /\ "featured-route-cards" \in js.rendered
             /\ "featured" \notin js.timers => RegionsDrawn /\ unhandled = {}
       /\ featured = "failed" => FeaturedInvisible /\ unhandled = {}

\* C10: on the running page with every container, in either arrival order
\* of the featured list and the topology, the regional maps render without
\* a fault once the deferred render ran, and a regional map has the land
\* layer only if the topology has arrived.
C10_RegionMapToleratesOrder ==
    (page = "running" /\ present = RunningEls) =>
       /\ (featured = "ok" /\ "featured" \notin js.timers) =>
             /\ "timer:featured" \notin unhandled
             /\ "click" \notin unhandled
             /\ \A c \in {"na", "eu"} :
                   RegionIndices(js.featuredData.items, c) # <<>> => js.region[c].tooltips = 1
       /\ \A c \in {"na", "eu"} : js.region[c].land => topo = "ok"

-----------------------------------------------------------------------------
(* Claims about the canvas loop, charts and the venue map                   *)

\* C11: whatever theme toggles, window resizes, display frames and changes
\* of the reduced-motion preference have happened, at most one animate
\* callback is scheduled and it is the one animationId names; when a new
\* loop is started, the callback scheduled before is no longer outstanding.
C11_OneDrawLoop ==
    /\ [](Cardinality(js.rafPending) <= 1 /\ js.rafPending \subseteq {js.animationId})
    /\ [][js'.animationId # js.animationId => js.animationId \notin js'.rafPending]_vars
\* toggles and resizes have restarted a running loop
C11_Witness ==
    /\ slice = "canvas"
    /\ toggles = MaxToggles
    /\ js.rafPending = {js.animationId}
    /\ ~js.reducedMotion

\* C12: every row of a category chart (category bars, leaderboards) has the
\* fill colour the category-colour table gives for the theme that is active
\* now, also after theme toggles.
C12_ChartColoursFollowTheme ==
    \A id \in DOMAIN js.fills : \A i \in 1..Len(js.fills[id]) :
       js.fills[id][i].background = getCategoryColor(js, js.fills[id][i].category)

BarRenderers ==
    {"renderBarChart", "renderWorkoutTypes", "renderCategoryBars",
     "renderMonthlyBars", "renderLeaderboard"}
\* the greatest of a set of numbers and 1
GreatestOr1(S) == CHOOSE b \in S \cup {1} : \A x \in S \cup {1} : b >= x
RowValues(rows) == { rows[i].value : i \in 1..Len(rows) }

NormalizedValues ==
    CASE chartOut.fn \in BarRenderers -> RowValues(chartOut.out.rows)
      [] chartOut.fn = "renderCalendars" ->
            UNION { { chartIn.calendars[k].days[i] : i \in 1..Len(chartIn.calendars[k].days) } :
                    k \in 1..Len(chartIn.calendars) }
      [] chartOut.fn = "renderVenueMap" ->
            { chartIn.all_venues[i].visit_count : i \in 1..Len(chartIn.all_venues) }
\* the denominators of the proportions the renderer that ran computed
Denominators ==
    CASE chartOut.fn \in BarRenderers ->
            { chartOut.out.rows[i].width.d : i \in 1..Len(chartOut.out.rows) }
      [] chartOut.fn = "renderCalendars" ->
            UNION { { m.cells[i].intensity[1].d :
                         i \in { j \in 1..Len(m.cells) : m.cells[j].active } } :
                    m \in { chartOut.out.months[k] : k \in 1..Len(chartOut.out.months) } }
      [] chartOut.fn = "renderVenueMap" ->
            { chartOut.out.markers[i].radius.d : i \in 1..Len(chartOut.out.markers) }

\* C14: the bound a renderer computes (bar charts, calendar heatmap, venue
\* map) is at least 1 and at least every number it was computed from, also
\* for an empty or all-zero sequence, and no proportion has a zero divisor.
C14_BoundAtLeastOne ==
    chartOut.fn \in BarRenderers \cup {"renderCalendars", "renderVenueMap"} =>
       /\ chartOut.out.bound >= 1
       /\ \A v \in NormalizedValues : chartOut.out.bound >= v
       /\ \A d \in Denominators : d > 0
\* a renderer ran on a non-empty sequence of zeros
C14_Witness ==
    /\ chartOut.fn = "renderWorkoutTypes"
    /\ Len(chartOut.out.rows) >= 2
    /\ RowValues(chartOut.out.rows) = {0}
    /\ chartOut.out.bound = 1

\* C15: renderLeaderboard renders the first min(10, n) records of its
\* argument, in the argument's order, and its bound is the greatest value
\* among those records (at least 1), whatever the later records hold.
C15_LeaderboardTopTen ==
    chartOut.fn = "renderLeaderboard" =>
       LET items == chartIn.values
           rows  == chartOut.out.rows
           shown == IF Len(items) < 10 THEN Len(items) ELSE 10
       IN  /\ Len(rows) = shown
           /\ \A i \in 1..shown : rows[i].value = items[i]
           /\ chartOut.out.bound = GreatestOr1({ items[i] : i \in 1..shown })
\* a leaderboard whose eleventh record exceeds every rendered one
C15_Witness ==
    /\ chartOut.fn = "renderLeaderboard"
    /\ Len(chartIn.values) > 10
    /\ chartIn.values[11] > chartOut.out.bound
    /\ Len(chartOut.out.rows) = 10

\* C16: every month of the calendar gets (weekday of its first day + 6) mod 7
\* blank cells before its first day, the weekday counted from Sunday = 0:
\* 2 for a Wednesday, 0 for a Monday, 6 for a Sunday.
C16_LeadingBlanks ==
    chartOut.fn = "renderCalendars" =>
       \A k \in 1..Len(chartOut.out.months) :
          LET m == chartOut.out.months[k]
          IN  /\ m.blanks = (m.getDay + 6) % 7
              /\ m.getDay = 3 => m.blanks = 2
              /\ m.getDay = 1 => m.blanks = 0
              /\ m.getDay = 0 => m.blanks = 6
\* a month starting on a Sunday was rendered
C16_Witness ==
    /\ chartOut.fn = "renderCalendars"
    /\ chartOut.out.months[1].getDay = 0
    /\ chartOut.out.months[1].blanks = 6

\* the cells of every month of the rendered calendar
CalendarCells ==
    UNION { { chartOut.out.months[k].cells[i] : i \in 1..Len(chartOut.out.months[k].cells) } :
            k \in 1..Len(chartOut.out.months) }

\* C17: a day with active minutes is marked active and has the intensity
\* max(0.2, minutes / bound), between 0.2 and 1, the bound being the greatest
\* active-minutes value of all months (at least 1); a day without active
\* minutes is not marked active and has no intensity.
C17_HeatmapIntensity ==
    chartOut.fn = "renderCalendars" =>
       LET B == GreatestOr1({ c.minutes : c \in CalendarCells })
       IN  \A c \in CalendarCells :
              IF c.minutes > 0
              THEN /\ c.active
                   /\ Len(c.intensity) = 1
                   /\ LET x == c.intensity[1]
                      IN  /\ x.d > 0
                          /\ 5 * x.n >= x.d
                          /\ x.n <= x.d
                          /\ x.n * B >= c.minutes * x.d
                          /\ 5 * x.n = x.d \/ x.n * B = c.minutes * x.d
              ELSE ~c.active /\ c.intensity = <<>>
\* a calendar with a rest day, a day raised to 0.2 and a day at full intensity
C17_Witness ==
    /\ chartOut.fn = "renderCalendars"
    /\ \E c \in CalendarCells : c.minutes = 0
    /\ \E c \in CalendarCells : c.minutes = 1 /\ c.intensity = << [n |-> 1, d |-> 5] >>
    /\ \E c \in CalendarCells : c.minutes = 45 /\ c.intensity = << [n |-> 45, d |-> 45] >>

\* a venue record with usable coordinates: both present, 0 included
ValidCoordinates(venue) == venue.geo \in {"ok", "zero"}

\* C18: the venue map has one circular marker for each venue record with
\* valid coordinates, a latitude or longitude of 0 included, in the records'
\* order, and each marker's radius is 6 + 14 * visit_count / bound, between 6
\* and 20 pixels, the bound being the greatest visit count (at least 1).
C18_MarkerPerValidVenue ==
    chartOut.fn = "renderVenueMap" =>
       LET vs == chartIn.all_venues
           B  == GreatestOr1({ vs[i].visit_count : i \in 1..Len(vs) })
           ms == chartOut.out.markers
       IN  /\ { ms[k].venue : k \in 1..Len(ms) } = { i \in 1..Len(vs) : ValidCoordinates(vs[i]) }
           /\ \A j, k \in 1..Len(ms) : j < k => ms[j].venue < ms[k].venue
           /\ \A k \in 1..Len(ms) :
                 LET r == ms[k].radius
                 IN  /\ r.d > 0
                     /\ r.n * B = (6 * B + 14 * vs[ms[k].venue].visit_count) * r.d
                     /\ 6 * r.d <= r.n
                     /\ r.n <= 20 * r.d

\* the venue dataset of the session has records and none has valid coordinates
NoValidVenue ==
    /\ page = "venue"
    /\ js.brewData # NullRef
    /\ js.brewData.all_venues # NullRef
    /\ Len(js.brewData.all_venues.items) > 0
    /\ \A k \in 1..Len(js.brewData.all_venues.items) : js.brewData.all_venues.items[k] = "none"

\* C19: when the venue dataset has records but none with valid coordinates,
\* the venue map renderVenueMap builds has no marker and was not fitted to a
\* viewport, and neither the deferred render nor a re-render on a theme
\* toggle raises a fault.
C19_NoValidVenueNoFit ==
    NoValidVenue =>
       /\ "timer:renderVenueMap" \notin unhandled
       /\ "click" \notin unhandled
       /\ \A m \in js.liveMaps : m.slot = "venue-map" => m.markers = {} /\ ~m.fitted
\* such a dataset was rendered: the venue map exists, empty and unfitted
C19_Witness ==
    /\ NoValidVenue
    /\ "venue-map" \in present
    /\ js.timers = {}
    /\ js.venueMapInstance # <<>>
    /\ \E m \in js.liveMaps : m.slot = "venue-map" /\ m.markers = {} /\ ~m.fitted

Greatest(S) == CHOOSE x \in S : \A y \in S : y <= x
Least(S) == CHOOSE x \in S : \A y \in S : x <= y

\* C20: the padding of an axis of a region's bounding box is
\* max(0.2 * span, 4) degrees, span being the greatest minus the least
\* coordinate of the region's points on that axis, and the box runs from the
\* least coordinate minus the padding to the greatest plus the padding; points
\* spanning 1 degree get 4 degrees of padding. Amounts are in tenths of a degree.
C20_RegionPadding ==
    chartOut.fn = "renderRegionMap" =>
       LET vals == { chartIn.values[i] : i \in 1..Len(chartIn.values) }
           span == Greatest(vals) - Least(vals)
           box  == chartOut.out
       IN  /\ box.pad >= 40
           /\ box.pad >= 2 * span
           /\ box.pad = 40 \/ box.pad = 2 * span
           /\ span = 1 => box.pad = 40
           /\ box.lo = 10 * Least(vals) - box.pad
           /\ box.hi = 10 * Greatest(vals) + box.pad
\* points one degree apart were padded by the floor of 4 degrees
C20_Witness ==
    /\ chartOut.fn = "renderRegionMap"
    /\ { chartIn.values[i] : i \in 1..Len(chartIn.values) } = {-120, -119}
    /\ chartOut.out = [pad |-> 40, lo |-> -1240, hi |-> -1150]
\* points far enough apart were padded by a fifth of their span
C20_WideWitness ==
    /\ chartOut.fn = "renderRegionMap"
    /\ { chartIn.values[i] : i \in 1..Len(chartIn.values) } = {-120, 10}
    /\ chartOut.out.pad = 260

\* C21: getCategoryColor returns the category's colour from the table of the
\* theme active at the call for each of the six enumerated categories, and
\* that table's 'other' colour for every other key; a call after a theme
\* change answers from the new theme's table.
C21_CategoryColourLookup ==
    chartOut.fn = "getCategoryColor" =>
       \A i \in 1..Len(chartIn.themes) :
          LET table == CATEGORY_COLORS[chartIn.themes[i]]
          IN  chartOut.out[i] = IF chartIn.category \in DOMAIN table
                                THEN table[chartIn.category] ELSE table.other

\* C22: for every marker drawn on the 'na' or the 'eu' regional map, the card
\* its click handler scrolls to exists, its index is the position of the
\* marker's record in the full featured list, and the card was built from
\* that record, which belongs to the map's region.
C22_MarkerClickFindsItsCard ==
    chartOut.fn = "renderFeaturedSection" =>
       \A c \in {"na", "eu"} :
          \A k \in 1..Len(chartOut.out[c]) :
             LET m == chartOut.out[c][k]
             IN  \E i \in 1..Len(chartIn.data) :
                    /\ chartIn.data[i].ref = m.ref
                    /\ chartIn.data[i].continent = c
                    /\ m.click = "featured-card-" \o ToString(i - 1)
                    /\ chartOut.out.cards[i].id = m.click
                    /\ chartOut.out.cards[i].ref = m.ref
                    /\ \A j \in 1..Len(chartOut.out.cards) :
                          chartOut.out.cards[j].id = m.click => j = i
\* the regions' records interleave in the full list: the second 'eu' marker
\* leads to the third card
C22_Witness ==
    /\ chartOut.fn = "renderFeaturedSection"
    /\ Len(chartIn.data) = 3
    /\ chartIn.data[1].continent = "eu" /\ chartIn.data[2].continent = "na"
    /\ Len(chartOut.out.eu) = 2
    /\ chartOut.out.eu[2].click = "featured-card-2"
    /\ Len(chartOut.out.na) = 1
    /\ chartOut.out.na[1].click = "featured-card-1"

\* the step is a click on the theme toggle
Toggled == toggles' = toggles + 1
RouteSlotNames == { ElId("map-", i) : i \in 1..MaxRuns }
FeaturedSlotNames == { ElId("featured-map-", i) : i \in 1..MaxFeatured }
\* no dataset of the page has loaded and no map instance is held
NothingToRender ==
    /\ js.runData = NullRef /\ js.featuredData = NullRef /\ js.brewData = NullRef
    /\ js.mapInstances = <<>> /\ js.featuredMapInstances = <<>> /\ js.venueMapInstance = <<>>
\* the step removed no instance, created none and left handles and data alone
MapsUntouched ==
    /\ js'.liveMaps = js.liveMaps
    /\ js'.removals = js.removals
    /\ js'.nextId = js.nextId
    /\ js'.mapInstances = js.mapInstances
    /\ js'.featuredMapInstances = js.featuredMapInstances
    /\ js'.venueMapInstance = js.venueMapInstance
    /\ js'.runData = js.runData
    /\ js'.featuredData = js.featuredData
    /\ js'.brewData = js.brewData
    /\ js'.worldTopoData = js.worldTopoData
    /\ js'.region = js.region
    /\ unhandled' = unhandled

\* C23: a theme toggle made while no dataset has loaded (the fetch pending or
\* failed) and no map instance is held removes nothing, creates no map,
\* raises no fault and leaves dataset variables and instance handles as they
\* were; and each map renderer alone is such a no-op when its own dataset is
\* missing and it holds no instance, whatever the other datasets are.
C23_RenderWithoutDataIsNoOp ==
    [][ Toggled =>
          /\ NothingToRender => MapsUntouched
          /\ (js.runData = NullRef /\ js.mapInstances = <<>>) =>
                /\ js'.runData = NullRef /\ js'.mapInstances = <<>>
                /\ ~\E m \in js'.liveMaps : m.slot \in RouteSlotNames
          /\ (js.featuredData = NullRef /\ js.featuredMapInstances = <<>>) =>
                /\ js'.featuredData = NullRef /\ js'.featuredMapInstances = <<>>
                /\ ~\E m \in js'.liveMaps : m.slot \in FeaturedSlotNames
                /\ js'.region = js.region
                /\ unhandled' = unhandled
          /\ (js.brewData = NullRef /\ js.venueMapInstance = <<>>) =>
                /\ js'.brewData = NullRef /\ js'.venueMapInstance = <<>>
                /\ ~\E m \in js'.liveMaps : m.slot = "venue-map"
      ]_vars
\* the toggle was clicked after the primary fetch failed and before any other
\* dataset arrived: there is still no map
C23_Witness ==
    /\ toggles > 0
    /\ PrimaryFailed
    /\ featured # "ok"
    /\ NothingToRender
    /\ js.liveMaps = {} /\ js.nextId = 1 /\ js.removals = <<>>
    /\ unhandled = {}

\* the region has entries and the deferred render of the featured section ran
\* on a page that has the region's container
RegionRendered(c) ==
    /\ featured = "ok"
    /\ "featured" \notin js.timers
    /\ {"featured-route-cards", "featured-map-" \o c} \subseteq present
    /\ \E i \in 1..Len(js.featuredData.items) : js.featuredData.items[i].continent = c

\* C24: once renderRegionMap has been called on a region's container, and
\* after every further call on a theme toggle, the container holds exactly
\* one map SVG and exactly one tooltip element.
C24_OneSvgOneTooltip ==
    \A c \in {"na", "eu"} :
       RegionRendered(c) => js.region[c].svgs = 1 /\ js.region[c].tooltips = 1
\* what holds of every container in every state: never two SVGs or tooltips
C24_NeverDuplicated ==
    \A c \in {"na", "eu"} :
       js.region[c].svgs \in {0, 1} /\ js.region[c].tooltips = js.region[c].svgs

\* C25: between event handlers, every live map has the tile source and the
\* overlay colours of the theme that is active, and every regional SVG on the
\* page has that theme's colours, whatever fetch completions, render timers
\* and theme toggles came before.
C25_LiveMapsMatchTheme ==
    /\ \A m \in js.liveMaps : m.dark = IsDark(js) /\ m.tiles = getTileUrl(js)
    /\ \A c \in {"na", "eu"} : js.region[c].svgs > 0 => js.region[c].dark = IsDark(js)
\* after a toggle to the light theme, a route map and a regional map built
\* before the toggle have been rebuilt in the light theme
C25_Witness ==
    /\ toggles > 0
    /\ js.theme = "light"
    /\ \E m \in js.liveMaps : m.id > 1 /\ m.tiles = "light_all" /\ ~m.dark
    /\ \E id \in DOMAIN js.removals : js.removals[id] = 1
    /\ \E c \in {"na", "eu"} : js.region[c].svgs = 1 /\ ~js.region[c].dark
\* the same on the venue page
C25_VenueWitness ==
    /\ page = "venue"
    /\ toggles > 0
    /\ \E m \in js.liveMaps : m.slot = "venue-map" /\ m.id > 1 /\ m.dark = IsDark(js)

\* the page shows the fallback of the primary dataset
FallbackShown == js.statusText = Fallback \/ js.statCardsHtml = "error-card"

\* C26: the fallback message and the error card are shown only when the
\* primary fetch failed: after a successful response with valid JSON they are
\* never shown, and whenever the primary dataset variable is set the page
\* does not show them.
C26_FallbackOnlyOnFailure ==
    /\ FallbackShown => PrimaryFailed
    /\ primary = "ok" => ~FallbackShown
    /\ (js.runData # NullRef \/ js.brewData # NullRef) => ~FallbackShown

\* every regional map on the page has the landmass layer
LandShown == \A c \in {"na", "eu"} : js.region[c].svgs > 0 => js.region[c].land

\* C27: once the featured dataset and the topology have both loaded and every
\* pending timer has run, so that nothing more happens without a click, the
\* regional maps on the page show the landmass layer, whichever of the two
\* payloads arrived first.
C27_LandEventuallyShown ==
    (featured = "ok" /\ topo = "ok" /\ js.timers = {}) => LandShown

\* C28: one click on the theme toggle switches the rendering mode (dark to
\* light or light to dark), whatever value the theme had when the script
\* loaded it from storage, and after the click the data-theme attribute
\* equals the value kept in localStorage.
C28_ToggleSwitchesMode ==
    [][ Toggled => IsDark(js') # IsDark(js) /\ js'.theme = js'.localTheme ]_vars
\* what holds for every stored value: attribute and storage agree
C28_AttributeEqualsStored == js.theme = js.localTheme

\* the recent runs of the loaded running dataset
RecentRuns ==
    IF js.runData = NullRef \/ js.runData.recent_runs = NullRef THEN <<>>
    ELSE js.runData.recent_runs.items
\* every recent run with coordinates has exactly one live map in its card
RunsMapped ==
    \A i \in 1..Len(RecentRuns) :
       RecentRuns[i] = "pts" =>
          Cardinality({ m \in js.liveMaps : m.slot = ElId("map-", i) }) = 1
\* no run without coordinates has a live map
NoMapWithoutCoordinates ==
    \A m \in js.liveMaps : \A i \in 1..MaxRuns :
       m.slot = ElId("map-", i) => i <= Len(RecentRuns) /\ RecentRuns[i] = "pts"

\* C29: once the running dataset has loaded on a page that has the route
\* cards' container and every pending timer has run, every recent run that
\* has coordinates has exactly one live route map in its card, after any
\* number of theme toggles before or after the deferred render; a run
\* without coordinates never has a map.
C29_RouteMapsEventuallyLive ==
    /\ NoMapWithoutCoordinates
    /\ (page = "running" /\ primary = "ok" /\ "route-cards" \in present /\ js.timers = {})
          => RunsMapped

\* C30: in the goal tracker, for every non-negative total distance the
\* percentage lies in [0, 100] and the remaining miles are at least 0; for
\* a distance of at most 1000 miles, miles run plus miles remaining is 1000
\* and the percentage is the distance divided by 10. Miles are in tenths.
C30_GoalTrackerBounds ==
    chartOut.fn = "renderGoalTracker" =>
       LET out == chartOut.out
       IN  /\ out.pct.d > 0
           /\ 0 <= out.pct.n
           /\ out.pct.n <= 100 * out.pct.d
           /\ out.remaining >= 0
           /\ chartIn.distance <= 10000 =>
                 /\ out.current + out.remaining = 10000
                 /\ out.pct.n * 100 = chartIn.distance * out.pct.d
\* a total beyond the goal: 1500 miles give 100 % and nothing remaining
C30_Witness ==
    /\ chartOut.fn = "renderGoalTracker"
    /\ chartIn.distance = 15000
    /\ chartOut.out.remaining = 0
    /\ chartOut.out.pct.n = 100 * chartOut.out.pct.d
\* a total below the goal: 523.4 miles give 52.34 % and 476.6 miles remaining
C30_BelowGoalWitness ==
    /\ chartOut.fn = "renderGoalTracker"
    /\ chartIn.distance = 5234
    /\ chartOut.out.remaining = 4766
    /\ chartOut.out.pct.n * 100 = 5234 * chartOut.out.pct.d

====
